---- MODULE Spec2Model ----
(***************************************************************************)
(* State machine of the App component of my-ocr/src/App.jsx: the upload /  *)
(* submit / result workflow and the transient message box.                 *)
(*                                                                         *)
(* Every React state cell the workflow reads or writes is a variable with  *)
(* the name it has in the source.  The browser's side of the program is    *)
(* held in two more variables: the fetch promises that are still pending   *)
(* (requests) and the setTimeout callbacks that are still pending          *)
(* (timers).  lastEvent and successesSinceReset are history variables:     *)
(* they record which handler ran last, with its inputs, and how many       *)
(* submissions succeeded since the last reset.  No handler reads them.     *)
(*                                                                         *)
(* JavaScript runs one callback at a time, and every handler below runs    *)
(* to completion (or to its first await) without yielding, so each         *)
(* handler, and each continuation after an await, is one atomic action.    *)
(* The two awaits of processTextDetection (fetch, response.json()) touch   *)
(* no React state between them, so the continuation from the fetch to the  *)
(* finally block is one action, Complete.                                  *)
(*                                                                         *)
(* The emoji that prefix the message-box texts in the source are left out  *)
(* of the string constants.                                                *)
(***************************************************************************)
EXTENDS Integers, Sequences, FiniteSets, TLC

VARIABLES selectedImage, highlightedImageSrc, textRegionsDetected, isDragOver,
          isProcessing, showResultPage, error, messageBox,
          requests, timers, lastEvent, successesSinceReset

vars == <<selectedImage, highlightedImageSrc, textRegionsDetected, isDragOver,
          isProcessing, showResultPage, error, messageBox,
          requests, timers, lastEvent, successesSinceReset>>

workflow == <<selectedImage, highlightedImageSrc, textRegionsDetected,
              isProcessing, showResultPage, error>>

-----------------------------------------------------------------------------
(* Bounds of the model *)

\* most File objects in one FileList (picker or drop)
MaxFiles == 2
\* most hide-timers pending plus fetches in flight
MaxPending == 2
\* the history counter successesSinceReset saturates here
MaxSuccesses == 2

-----------------------------------------------------------------------------
(* JavaScript values *)

Null == "<null>"
Undefined == "<undefined>"

\* a value that `||` and `if` treat as false
Falsy(v) == v \in {Null, Undefined, ""}

\* String.prototype.startsWith
StartsWith(s, prefix) ==
    /\ Len(s) >= Len(prefix)
    /\ SubSeq(s, 1, Len(prefix)) = prefix

\* The File objects a user can hand to the picker or drop on the page, by
\* name, and the MIME type the browser declares for each (file.type).
Files == {"scan.png", "photo.jpg", "paper.pdf"}

FileType(f) ==
    CASE f = "scan.png"  -> "image/png"
      [] f = "photo.jpg" -> "image/jpeg"
      [] OTHER           -> "application/pdf"

\* event.target.files / event.dataTransfer.files: up to MaxFiles different
\* files, in any order
FileLists ==
    {files \in UNION {[1..n -> Files] : n \in 0..MaxFiles} :
        \A i, j \in 1..Len(files) : files[i] = files[j] => i = j}

\* as if the handlers took the first file of the list that is an image, and
\* files[0] when there is none
FirstImageFile(files) ==
    LET images == {i \in 1..Len(files) :
                     Len(FileType(files[i])) >= 6
                       /\ SubSeq(FileType(files[i]), 1, 6) = "image/"}
    IN  IF Len(files) = 0 THEN Undefined
        ELSE IF images = {} THEN files[1]
        ELSE files[CHOOSE i \in images : \A j \in images : i <= j]

\* files[0]: undefined on an empty list
FirstFile(files) == IF Len(files) = 0 THEN Undefined ELSE files[1]

\* as if the test were file.type.includes('/')
IsImageFileAnyType(f) == \E i \in 1..Len(FileType(f)) : SubSeq(FileType(f), i, i) = "/"

\* as if the test were file.type === 'image/png'
IsImageFilePngOnly(f) == FileType(f) = "image/png"

\* file.type.startsWith('image/')
IsImageFile(f) == StartsWith(FileType(f), "image/")

-----------------------------------------------------------------------------
(* Initial state: the useState initialisers *)

NoResponse == [kind |-> "none", ok |-> FALSE, status |-> 0, statusText |-> "",
               parse |-> "invalid", success |-> FALSE, error |-> Undefined,
               highlighted_image |-> Undefined, text_regions_detected |-> 0]

Event(op, files, resp) == [op |-> op, files |-> files, resp |-> resp]

Init ==
    /\ selectedImage = Null
    /\ highlightedImageSrc = Null
    /\ textRegionsDetected = 0
    /\ isDragOver = FALSE
    /\ isProcessing = FALSE
    /\ showResultPage = FALSE
    /\ error = ""
    /\ messageBox = [visible |-> FALSE, content |-> ""]
    /\ requests = <<>>
    /\ timers = <<>>
    /\ lastEvent = Event("mount", <<>>, NoResponse)
    /\ successesSinceReset = 0

-----------------------------------------------------------------------------
(* Transient notifier *)

\* the delay handed to setTimeout, in seconds (3000 ms)
HideDelay == 3

\* as if a message already on display were kept (first message wins)
showCustomMessageBoxKeepsShown(message) ==
    /\ messageBox' = IF messageBox.visible
                     THEN messageBox
                     ELSE [visible |-> TRUE, content |-> message]
    /\ timers' = Append(timers, HideDelay)

\* showCustomMessageBox(message): show the message and schedule a callback
\* that hides the box.  The timer handle is dropped, so no timer is ever
\* cancelled.
showCustomMessageBox(message) ==
    /\ messageBox' = [visible |-> TRUE, content |-> message]
    /\ timers' = Append(timers, HideDelay)

\* as if the callback changed nothing
HideCallbackNoop == UNCHANGED messageBox

\* the callback handed to setTimeout
HideCallback ==
    messageBox' = [visible |-> FALSE, content |-> ""]

\* One second passes.  A callback that is due runs before the clock moves on.
Tick ==
    /\ timers # <<>>
    /\ \A i \in 1..Len(timers) : timers[i] > 0
    /\ timers' = [i \in 1..Len(timers) |-> timers[i] - 1]
    /\ lastEvent' = Event("tick", <<>>, NoResponse)
    /\ UNCHANGED <<workflow, isDragOver, messageBox, requests, successesSinceReset>>

\* The oldest pending callback is due and runs (all delays are equal, so the
\* callbacks run in the order they were scheduled).
TimerFire ==
    /\ timers # <<>>
    /\ Head(timers) = 0
    /\ HideCallback
    /\ timers' = Tail(timers)
    /\ lastEvent' = Event("timer", <<>>, NoResponse)
    /\ UNCHANGED <<workflow, isDragOver, requests, successesSinceReset>>

-----------------------------------------------------------------------------
(* What is on the page: the conditions of the JSX *)

\* as if the input page were rendered beside the result page
InputPageAlwaysShown == TRUE

\* {showResultPage ? <result page> : <input page>}
InputPageShown == ~showResultPage

\* {selectedImage && ( ... <button onClick={() => setSelectedImage(null)}>
RemoveButtonShown == InputPageShown /\ ~Falsy(selectedImage)

\* as if the button were disabled={!selectedImage}
ProcessButtonEnabledWhileBusy == InputPageShown /\ ~Falsy(selectedImage)

\* <button onClick={processTextDetection} disabled={!selectedImage || isProcessing}>
ProcessButtonEnabled == InputPageShown /\ ~(Falsy(selectedImage) \/ isProcessing)

\* <button onClick={handleBackToInput}> on the result page
NewButtonShown == showResultPage

-----------------------------------------------------------------------------
(* Upload surface *)

PickerErrorText ==
    "Please upload an image file (JPG, PNG). PDF support for detection is not yet available."

DropErrorText == "Please drop an image file (JPG, PNG)."

\* the body of handleFileChange: what it does to selectedImage and error
fileChangeValidation(files) ==
    LET file == FirstFile(files) IN
    IF ~Falsy(file)
    THEN IF IsImageFile(file)
         THEN selectedImage' = file /\ error' = ""
         ELSE error' = PickerErrorText /\ selectedImage' = Null
    ELSE UNCHANGED <<selectedImage, error>>

\* handleFileChange(event), event.target.files = files
handleFileChange(files) ==
    /\ fileChangeValidation(files)
    /\ UNCHANGED <<highlightedImageSrc, textRegionsDetected, isDragOver,
                   isProcessing, showResultPage, messageBox, requests, timers,
                   successesSinceReset>>

handleDragOver ==
    /\ isDragOver' = TRUE
    /\ UNCHANGED <<workflow, messageBox, requests, timers, successesSinceReset>>

handleDragLeave ==
    /\ isDragOver' = FALSE
    /\ UNCHANGED <<workflow, messageBox, requests, timers, successesSinceReset>>

\* as if the accepting branch of handleDrop lacked setError('')
dropValidationKeepsError(files) ==
    LET file == FirstFile(files) IN
    IF ~Falsy(file)
    THEN IF StartsWith(FileType(file), "image/")
         THEN selectedImage' = file /\ UNCHANGED error
         ELSE error' = "Please drop an image file (JPG, PNG)." /\ selectedImage' = Null
    ELSE UNCHANGED <<selectedImage, error>>

\* what handleDrop does to selectedImage and error
dropValidation(files) ==
    LET file == FirstFile(files) IN
    IF ~Falsy(file)
    THEN IF IsImageFile(file)
         THEN selectedImage' = file /\ error' = ""
         ELSE error' = DropErrorText /\ selectedImage' = Null
    ELSE UNCHANGED <<selectedImage, error>>

\* as if setIsDragOver(false) stood inside if (file) { ... }
handleDropFlagWithFileOnly(files) ==
    /\ isDragOver' = IF Len(files) = 0 THEN isDragOver ELSE FALSE
    /\ dropValidation(files)
    /\ UNCHANGED <<highlightedImageSrc, textRegionsDetected, isProcessing,
                   showResultPage, messageBox, requests, timers,
                   successesSinceReset>>

\* handleDrop(event), event.dataTransfer.files = files
handleDrop(files) ==
    /\ isDragOver' = FALSE
    /\ dropValidation(files)
    /\ UNCHANGED <<highlightedImageSrc, textRegionsDetected, isProcessing,
                   showResultPage, messageBox, requests, timers,
                   successesSinceReset>>

\* as if the remove handler did nothing while a submission is in flight
removeSelectedImageUnlessBusy ==
    /\ selectedImage' = IF isProcessing THEN selectedImage ELSE Null
    /\ UNCHANGED <<highlightedImageSrc, textRegionsDetected, isDragOver,
                   isProcessing, showResultPage, error, messageBox, requests,
                   timers, successesSinceReset>>

\* the remove button's handler: () => setSelectedImage(null)
removeSelectedImage ==
    /\ selectedImage' = Null
    /\ UNCHANGED <<highlightedImageSrc, textRegionsDetected, isDragOver,
                   isProcessing, showResultPage, error, messageBox, requests,
                   timers, successesSinceReset>>

\* as if handleBackToInput() lacked setError('')
handleBackToInputKeepsError ==
    /\ showResultPage' = FALSE
    /\ selectedImage' = Null
    /\ highlightedImageSrc' = Null
    /\ textRegionsDetected' = 0
    /\ successesSinceReset' = 0
    /\ UNCHANGED <<error, isDragOver, isProcessing, messageBox, requests, timers>>

\* as if handleBackToInput() also hid the message box
handleBackToInputHidesMessage ==
    /\ showResultPage' = FALSE
    /\ selectedImage' = Null
    /\ highlightedImageSrc' = Null
    /\ textRegionsDetected' = 0
    /\ error' = ""
    /\ successesSinceReset' = 0
    /\ messageBox' = [visible |-> FALSE, content |-> ""]
    /\ UNCHANGED <<isDragOver, isProcessing, requests, timers>>

\* handleBackToInput()
handleBackToInput ==
    /\ showResultPage' = FALSE
    /\ selectedImage' = Null
    /\ highlightedImageSrc' = Null
    /\ textRegionsDetected' = 0
    /\ error' = ""
    /\ successesSinceReset' = 0
    /\ UNCHANGED <<isDragOver, isProcessing, messageBox, requests, timers>>

-----------------------------------------------------------------------------
(* Submission controller *)

\* What the backend, or the network, can answer to one POST /detect-text.
\*   kind "reject":   fetch rejects (host unreachable, connection refused)
\*   kind "response": fetch resolves; ok is response.ok; parse says what
\*                    response.json() gives: "object" (a JSON object with the
\*                    fields below, Undefined for a field that is absent),
\*                    "null" (the JSON text null) or "invalid" (it rejects).
Response(ok, status, statusText, parse, success, err, image, count) ==
    [kind |-> "response", ok |-> ok, status |-> status, statusText |-> statusText,
     parse |-> parse, success |-> success, error |-> err,
     highlighted_image |-> image, text_regions_detected |-> count]

RejectedFetch == [NoResponse EXCEPT !.kind = "reject"]

ErrorTexts == {Undefined, "", "bad image"}

\* non-2xx answers: a 400 with a reason phrase, and a 500 without one (HTTP/2
\* carries no reason phrase, so response.statusText is empty)
ErrorResponses ==
    {Response(FALSE, 400, "Bad Request", "invalid", FALSE, Undefined, Undefined, 0),
     Response(FALSE, 400, "Bad Request", "null", FALSE, Undefined, Undefined, 0),
     Response(FALSE, 500, "", "invalid", FALSE, Undefined, Undefined, 0)}
    \cup {Response(FALSE, 400, "Bad Request", "object", FALSE, e, Undefined, 0) :
            e \in ErrorTexts}

OkResponses ==
    {Response(TRUE, 200, "OK", "invalid", FALSE, Undefined, Undefined, 0),
     Response(TRUE, 200, "OK", "null", FALSE, Undefined, Undefined, 0)}
    \cup {Response(TRUE, 200, "OK", "object", FALSE, e, Undefined, 0) :
            e \in ErrorTexts}
    \cup {Response(TRUE, 200, "OK", "object", TRUE, Undefined,
                   "data:image/png;base64,AAAA", n) : n \in {0, 42}}
    \cup {Response(TRUE, 200, "OK", "object", TRUE, Undefined, Undefined, 42)}

Responses == {RejectedFetch} \cup ErrorResponses \cup OkResponses

\* messages of the exceptions the runtime raises
FetchFailedText == "Failed to fetch"
JsonSyntaxText == "Unexpected end of JSON input"
NullErrorText == "Cannot read properties of null (reading 'error')"
NullSuccessText == "Cannot read properties of null (reading 'success')"

SuccessNotice == "Text detection complete!"
FailedNotice == "Detection failed. Please try again."
ConnectionNotice == "Detection failed. Please check backend connection."
NoFileText == "Please select an image to process."
UnknownErrorText == "Unknown error occurred during detection."

\* as if the fallback after || were left out
OrElseNoFallback(a, b) == a

\* a || b on strings
OrElse(a, b) == IF Falsy(a) THEN b ELSE a

\* as if the block threw the status line without reading the body
HttpErrorMessageStatusOnly(resp) == "HTTP error! status: " \o ToString(resp.status)

\* if (!response.ok) { ... }: the message of the Error that block throws
HttpErrorMessage(resp) ==
    LET errorData_error ==
            CASE resp.parse = "invalid" -> resp.statusText
              [] OTHER                  -> resp.error
    IN  IF resp.parse = "null"
        THEN NullErrorText
        ELSE OrElse(errorData_error,
                    "HTTP error! status: " \o ToString(resp.status))

\* as if the test were result.success && result.text_regions_detected
IsSuccessWithCount(result) == result.success /\ result.text_regions_detected # 0

\* if (result.success)
IsSuccess(result) == result.success

\* The way the try block ends for one answer: "success" (result.success is
\* true), "failure" (it is not), or "thrown" with the message of the
\* exception that reaches the catch clause.
Outcome(resp) ==
    CASE resp.kind = "reject" ->
            [kind |-> "thrown", message |-> FetchFailedText]
      [] resp.kind = "response" /\ ~resp.ok ->
            [kind |-> "thrown", message |-> HttpErrorMessage(resp)]
      [] resp.kind = "response" /\ resp.ok /\ resp.parse = "invalid" ->
            [kind |-> "thrown", message |-> JsonSyntaxText]
      [] resp.kind = "response" /\ resp.ok /\ resp.parse = "null" ->
            [kind |-> "thrown", message |-> NullSuccessText]
      [] resp.kind = "response" /\ resp.ok /\ resp.parse = "object" /\ IsSuccess(resp) ->
            [kind |-> "success", message |-> ""]
      [] OTHER ->
            [kind |-> "failure", message |-> OrElse(resp.error, UnknownErrorText)]

\* as if the template left out ${err.message}
CatchErrorTextNoMessage(message) ==
    "Failed to connect to backend or process image. Please ensure the backend is running."

\* the text the catch clause hands to setError
CatchErrorText(message) ==
    "Failed to connect to backend or process image: " \o message
        \o ". Please ensure the backend is running."

\* as if the guard at the top of processTextDetection were missing
NoFileSelectedNever == FALSE

\* if (!selectedImage)
NoFileSelected == Falsy(selectedImage)

\* as if processTextDetection lacked setError('') and the clearing of the
\* previous result
processTextDetectionKeepsError ==
    IF Falsy(selectedImage)
    THEN /\ error' = "Please select an image to process."
         /\ UNCHANGED <<selectedImage, highlightedImageSrc, textRegionsDetected,
                        isDragOver, isProcessing, showResultPage, messageBox,
                        requests, timers, successesSinceReset>>
    ELSE /\ isProcessing' = TRUE
         /\ requests' = Append(requests, [file |-> selectedImage])
         /\ UNCHANGED <<selectedImage, error, highlightedImageSrc,
                        textRegionsDetected, isDragOver, showResultPage,
                        messageBox, timers, successesSinceReset>>

\* processTextDetection(), up to the await of fetch.  The request carries
\* the file that is selected now.
processTextDetection ==
    IF NoFileSelected
    THEN /\ error' = NoFileText
         /\ UNCHANGED <<selectedImage, highlightedImageSrc, textRegionsDetected,
                        isDragOver, isProcessing, showResultPage, messageBox,
                        requests, timers, successesSinceReset>>
    ELSE /\ isProcessing' = TRUE
         /\ error' = ""
         /\ highlightedImageSrc' = Null
         /\ textRegionsDetected' = 0
         /\ requests' = Append(requests, [file |-> selectedImage])
         /\ UNCHANGED <<selectedImage, isDragOver, showResultPage, messageBox,
                        timers, successesSinceReset>>

\* as if setIsProcessing(false) were missing
FinallyBlockMissing == UNCHANGED isProcessing

\* finally { setIsProcessing(false); }
FinallyBlock == isProcessing' = FALSE

\* the sequence s without its i-th element
RemoveAt(s, i) == [j \in 1..(Len(s) - 1) |-> IF j < i THEN s[j] ELSE s[j + 1]]

\* processTextDetection() from the answer to request i to the end of the
\* finally block.
Complete(i, resp) ==
    LET o == Outcome(resp) IN
    /\ requests' = RemoveAt(requests, i)
    /\ CASE o.kind = "success" ->
               /\ highlightedImageSrc' = resp.highlighted_image
               /\ textRegionsDetected' = resp.text_regions_detected
               /\ showCustomMessageBox(SuccessNotice)
               /\ showResultPage' = TRUE
               /\ successesSinceReset' =
                      IF successesSinceReset < MaxSuccesses
                      THEN successesSinceReset + 1 ELSE successesSinceReset
               /\ UNCHANGED error
         [] o.kind = "failure" ->
               /\ error' = o.message
               /\ showCustomMessageBox(FailedNotice)
               /\ UNCHANGED <<highlightedImageSrc, textRegionsDetected,
                              showResultPage, successesSinceReset>>
         [] OTHER ->
               /\ error' = CatchErrorText(o.message)
               /\ showCustomMessageBox(ConnectionNotice)
               /\ UNCHANGED <<highlightedImageSrc, textRegionsDetected,
                              showResultPage, successesSinceReset>>
    /\ FinallyBlock
    /\ UNCHANGED <<selectedImage, isDragOver>>

-----------------------------------------------------------------------------
(* Events *)

\* room for one more fetch and the hide-timer its completion will schedule
HasRoom == Len(requests) + Len(timers) < MaxPending

SelectFile ==
    /\ InputPageShown
    /\ \E files \in FileLists :
         /\ handleFileChange(files)
         /\ lastEvent' = Event("handleFileChange", files, NoResponse)

DragOver ==
    /\ InputPageShown
    /\ handleDragOver
    /\ lastEvent' = Event("handleDragOver", <<>>, NoResponse)

DragLeave ==
    /\ InputPageShown
    /\ handleDragLeave
    /\ lastEvent' = Event("handleDragLeave", <<>>, NoResponse)

DropFile ==
    /\ InputPageShown
    /\ \E files \in FileLists :
         /\ handleDrop(files)
         /\ lastEvent' = Event("handleDrop", files, NoResponse)

ClickRemove ==
    /\ RemoveButtonShown
    /\ removeSelectedImage
    /\ lastEvent' = Event("removeSelectedImage", <<>>, NoResponse)

ClickProcess ==
    /\ ProcessButtonEnabled
    /\ HasRoom
    /\ processTextDetection
    /\ lastEvent' = Event("processTextDetection", <<>>, NoResponse)

FetchSettles ==
    \E i \in 1..Len(requests) : \E resp \in Responses :
        /\ Complete(i, resp)
        /\ lastEvent' = Event("complete", <<requests[i].file>>, resp)

ClickNew ==
    /\ NewButtonShown
    /\ handleBackToInput
    /\ lastEvent' = Event("handleBackToInput", <<>>, NoResponse)

\* the answers of a backend whose success payloads all carry highlighted_image
ResponsesWithImage ==
    {r \in Responses :
        (r.kind = "response" /\ r.ok /\ r.parse = "object" /\ r.success)
            => r.highlighted_image # Undefined}

\* the fetch settles on an answer of such a backend
FetchSettlesWithImage ==
    \E i \in 1..Len(requests) : \E resp \in ResponsesWithImage :
        /\ Complete(i, resp)
        /\ lastEvent' = Event("complete", <<requests[i].file>>, resp)

\* processTextDetection called other than by a click on the enabled button
CallProcess ==
    /\ HasRoom
    /\ processTextDetection
    /\ lastEvent' = Event("processTextDetection", <<>>, NoResponse)

Next ==
    \/ SelectFile
    \/ DragOver
    \/ DragLeave
    \/ DropFile
    \/ ClickRemove
    \/ ClickProcess
    \/ FetchSettles
    \/ ClickNew
    \/ Tick
    \/ TimerFire

\* the program as a user drives it
Spec == Init /\ [][Next]_vars

HandlerNext == Next \/ CallProcess

\* the program against a backend whose success payloads all carry an image
ImageNext == \/ SelectFile \/ DragOver \/ DragLeave \/ DropFile \/ ClickRemove
             \/ ClickProcess \/ FetchSettlesWithImage \/ ClickNew \/ Tick
             \/ TimerFire

ImageSpec == Init /\ [][ImageNext]_vars

\* the program with processTextDetection also called directly
HandlerSpec == Init /\ [][HandlerNext]_vars

\* every pending fetch settles, time passes and due callbacks run
Fairness ==
    /\ WF_vars(FetchSettles)
    /\ WF_vars(Tick)
    /\ WF_vars(TimerFire)

LiveSpec == Spec /\ Fairness

-----------------------------------------------------------------------------
(* Properties *)

\* the answer the last completed submission received
lastResp == lastEvent.resp

Completed == lastEvent.op = "complete"

\* the first file of the list the last picker or drop event carried
PickedOrDropped(e) ==
    /\ e.op \in {"handleFileChange", "handleDrop"}
    /\ e.files # <<>>

ImageTypedFiles == {"scan.png", "photo.jpg"}
OtherTypedFiles == {"paper.pdf"}

SuccessAnswer ==
    /\ Completed
    /\ lastResp.kind = "response" /\ lastResp.ok
    /\ lastResp.parse = "object" /\ lastResp.success
    /\ lastResp.highlighted_image # Undefined

\* C1: when a submission completes on a 2xx answer whose payload has success
\* true, image I and count N, the result page is shown, the stored image is I,
\* the stored count is N, isProcessing is false and the message box shows the
\* success notice.
C1_SuccessShowsResult ==
    SuccessAnswer =>
        /\ showResultPage
        /\ highlightedImageSrc = lastResp.highlighted_image
        /\ textRegionsDetected = lastResp.text_regions_detected
        /\ ~isProcessing
        /\ messageBox = [visible |-> TRUE, content |-> "Text detection complete!"]

C1_Witness ==
    /\ SuccessAnswer
    /\ lastResp.text_regions_detected = 42
    /\ showResultPage
    /\ textRegionsDetected = 42
    /\ highlightedImageSrc = "data:image/png;base64,AAAA"

StructuredHttpError ==
    /\ Completed
    /\ lastResp.kind = "response" /\ ~lastResp.ok
    /\ lastResp.parse = "object"
    /\ lastResp.error \notin {Undefined, ""}

\* C2 as claimed: after a non-2xx answer whose body parses to an object with
\* error message m, the error text equals m and the result page is not shown.
C2_ErrorEqualsPayload ==
    StructuredHttpError => (error = lastResp.error /\ ~showResultPage)

\* C2 as amended: after a non-2xx answer whose body parses to an object with a
\* non-empty error message m, the error text is m wrapped in the connectivity
\* sentence of the catch clause, and the result page is not shown.
C2_ErrorWrapsPayload ==
    StructuredHttpError =>
        /\ error = "Failed to connect to backend or process image: "
                     \o lastResp.error \o ". Please ensure the backend is running."
        /\ ~showResultPage

C2_Witness ==
    /\ StructuredHttpError
    /\ lastResp.error = "bad image"
    /\ error = "Failed to connect to backend or process image: bad image. Please ensure the backend is running."
    /\ ~showResultPage

\* C3: when the fetch of a submission rejects, afterwards the error is the
\* connectivity message, the message box shows the connection notice,
\* isProcessing is false, the result page is not shown and no result is stored.
C3_TransportFailure ==
    (Completed /\ lastResp.kind = "reject") =>
        /\ error = "Failed to connect to backend or process image: Failed to fetch. Please ensure the backend is running."
        /\ messageBox = [visible |-> TRUE,
                         content |-> "Detection failed. Please check backend connection."]
        /\ ~isProcessing
        /\ ~showResultPage
        /\ highlightedImageSrc = Null
        /\ textRegionsDetected = 0

C3_Witness ==
    /\ Completed /\ lastResp.kind = "reject"
    /\ ~isProcessing
    /\ messageBox.visible
    /\ error # ""

ApplicationFailure ==
    /\ Completed
    /\ lastResp.kind = "response" /\ lastResp.ok
    /\ lastResp.parse = "object" /\ ~lastResp.success

\* C4: after a 2xx answer whose payload has success false, the error is the
\* payload's error message verbatim, or the generic text when the payload has
\* none; the message box shows the failure notice, the result page is not
\* shown and no result is stored.
C4_ApplicationFailure ==
    ApplicationFailure =>
        /\ error = IF lastResp.error \in {Undefined, ""}
                   THEN "Unknown error occurred during detection."
                   ELSE lastResp.error
        /\ messageBox = [visible |-> TRUE,
                         content |-> "Detection failed. Please try again."]
        /\ ~showResultPage
        /\ highlightedImageSrc = Null
        /\ textRegionsDetected = 0

C4_Witness ==
    /\ ApplicationFailure
    /\ lastResp.error = "bad image"
    /\ error = "bad image"
    /\ ~showResultPage

SubmitWithoutFile == lastEvent'.op = "processTextDetection" /\ selectedImage = Null

C6_BusyResolves ==
    /\ [](Completed => ~isProcessing)
    /\ isProcessing ~> (~isProcessing /\ requests = <<>>)

C6_Witness ==
    /\ Completed
    /\ lastResp.kind = "response" /\ ~lastResp.ok
    /\ ~isProcessing
    /\ requests = <<>>

\* C7: a picker or drop event whose first file has a MIME type that does not
\* start with image/ leaves no file selected and a non-empty error, whatever
\* was selected before, and sends no request.
C7_NonImageRejected ==
    [][(PickedOrDropped(lastEvent') /\ lastEvent'.files[1] \in OtherTypedFiles) =>
          /\ selectedImage' = Null
          /\ error' # ""
          /\ requests' = requests]_vars

C7_Witness ==
    /\ PickedOrDropped(lastEvent)
    /\ lastEvent.op = "handleDrop"
    /\ lastEvent.files[1] = "paper.pdf"
    /\ isProcessing
    /\ selectedImage = Null
    /\ error # ""

\* C8: a picker or drop event whose first file has a MIME type that starts
\* with image/ stores that file as selectedImage and empties the error,
\* whatever error and file were there before.
C8_ImageAccepted ==
    [][(PickedOrDropped(lastEvent') /\ lastEvent'.files[1] \in ImageTypedFiles) =>
          /\ selectedImage' = lastEvent'.files[1]
          /\ error' = ""]_vars

C8_Witness ==
    /\ PickedOrDropped(lastEvent)
    /\ lastEvent.op = "handleFileChange"
    /\ lastEvent.files[1] = "photo.jpg"
    /\ selectedImage = "photo.jpg"
    /\ error = ""
    /\ isProcessing

\* C9: right after handleBackToInput, run from the result page, no file is
\* selected, no result is stored, the error is empty and the input page is
\* shown: the workflow state is the initial one.
C9_ResetClearsAll ==
    lastEvent.op = "handleBackToInput" =>
        /\ selectedImage = Null
        /\ highlightedImageSrc = Null
        /\ textRegionsDetected = 0
        /\ error = ""
        /\ ~showResultPage
        /\ ~isProcessing
        /\ requests = <<>>

C9_Witness ==
    /\ lastEvent.op = "handleBackToInput"
    /\ selectedImage = Null
    /\ highlightedImageSrc = Null
    /\ ~showResultPage

\* C10: a highlighted image or a non-zero count is stored only when exactly
\* one submission has succeeded since the last reset (or since the start).
C10_ResultOnlyAfterOneSuccess ==
    (highlightedImageSrc \notin {Null, Undefined} \/ textRegionsDetected # 0)
        => successesSinceReset = 1

C10_Witness ==
    /\ highlightedImageSrc = "data:image/png;base64,AAAA"
    /\ textRegionsDetected = 42
    /\ successesSinceReset = 1
    /\ showResultPage

ResultStored == highlightedImageSrc \notin {Null, Undefined}

\* C11: whenever a result is stored, a file is selected as well.
C11_ResultImpliesFile ==
    ResultStored => selectedImage # Null

\* C12: while isProcessing is true, no step other than the completion of the
\* pending fetch changes the selected file, the error, the result or the page.
C12_FrozenWhileProcessing ==
    [][(isProcessing /\ lastEvent'.op # "complete") =>
          UNCHANGED <<selectedImage, error, highlightedImageSrc,
                      textRegionsDetected, showResultPage>>]_vars

\* the message the completion of a submission hands to showCustomMessageBox
NoticeFor(resp) ==
    IF resp.kind = "response" /\ resp.ok /\ resp.parse = "object"
    THEN IF resp.success
         THEN "Text detection complete!"
         ELSE "Detection failed. Please try again."
    ELSE "Detection failed. Please check backend connection."

\* a step that calls showCustomMessageBox
Notifies == lastEvent'.op = "complete"

\* C13: right after showCustomMessageBox(m) the box is visible with content m
\* and a hide callback is pending with the full delay of 3 seconds; once every
\* pending callback has run (so the delay of the last message has elapsed)
\* the box is hidden, and it stays hidden until the next call; a visible box
\* always gets hidden.
C13_ShownThenHidden ==
    /\ [][Notifies =>
            /\ messageBox' = [visible |-> TRUE, content |-> NoticeFor(lastEvent'.resp)]
            /\ timers' = timers \o <<3>>]_vars
    /\ [](timers = <<>> => ~messageBox.visible)
    /\ [][(~messageBox.visible /\ messageBox'.visible) => Notifies]_vars
    /\ messageBox.visible ~> ~messageBox.visible

C13_Witness ==
    /\ lastEvent.op = "timer"
    /\ timers = <<>>
    /\ ~messageBox.visible
    /\ messageBox.content = ""

\* C14: while the hide callback of the newest message is still pending, that
\* message is on display: no older callback has hidden it.
C14_NewerMessageStaysVisible ==
    timers # <<>> => messageBox.visible

\* C15: the one message box shows, when visible, the message of the most
\* recent call of showCustomMessageBox: a call replaces whatever is shown by
\* its own message, and no other step shows a message or changes the one shown.
C15_OnlyNewestMessage ==
    [][IF Notifies
       THEN messageBox' = [visible |-> TRUE, content |-> NoticeFor(lastEvent'.resp)]
       ELSE messageBox'.visible => messageBox' = messageBox]_vars

C15_Witness ==
    /\ Completed
    /\ Len(timers) = 2
    /\ lastResp.kind = "response" /\ lastResp.ok /\ lastResp.parse = "object"
    /\ ~lastResp.success
    /\ messageBox = [visible |-> TRUE, content |-> "Detection failed. Please try again."]

SubmitWithFile == lastEvent'.op = "processTextDetection" /\ selectedImage # Null

\* C16: processTextDetection run with a file selected empties the error,
\* clears the stored result, sets isProcessing and sends exactly one request,
\* which carries the file selected at that moment; all in the one step that
\* ends at the await of fetch.
C16_SubmitStartsOneRequest ==
    [][SubmitWithFile =>
          /\ error' = ""
          /\ highlightedImageSrc' = Null
          /\ textRegionsDetected' = 0
          /\ isProcessing'
          /\ Len(requests') = Len(requests) + 1
          /\ requests' = requests \o <<[file |-> selectedImage]>>]_vars

C16_Witness ==
    /\ lastEvent.op = "processTextDetection"
    /\ selectedImage = "photo.jpg"
    /\ isProcessing
    /\ error = ""
    /\ requests = <<[file |-> "photo.jpg"]>>
    /\ timers # <<>>

HttpError ==
    /\ Completed
    /\ lastResp.kind = "response" /\ ~lastResp.ok

ConnectivitySentence(message) ==
    "Failed to connect to backend or process image: " \o message
        \o ". Please ensure the backend is running."

HttpErrorSurfaced(message) ==
    /\ error = ConnectivitySentence(message)
    /\ messageBox = [visible |-> TRUE,
                     content |-> "Detection failed. Please check backend connection."]
    /\ ~showResultPage

FailedCompletion ==
    /\ lastEvent'.op = "complete"
    /\ NoticeFor(lastEvent'.resp) # "Text detection complete!"

\* C18: the completion of a failed submission leaves the input page shown, a
\* non-empty error, isProcessing false and the selected file as it was, so
\* that the process button is enabled again whenever a file is still selected.
C18_FailureAllowsRetry ==
    [][FailedCompletion =>
          /\ ~showResultPage'
          /\ error' # ""
          /\ ~isProcessing'
          /\ selectedImage' = selectedImage
          /\ (selectedImage' # Null => ProcessButtonEnabled')]_vars

C18_Witness ==
    /\ Completed
    /\ lastResp.kind = "reject"
    /\ lastEvent.files = <<selectedImage>>
    /\ ProcessButtonEnabled
    /\ error # ""

Dropped == lastEvent'.op = "handleDrop"

\* C19 as claimed: a drop leaves selectedImage and error exactly as
\* handleFileChange would have left them for the same files from the same
\* state, error message included.
C19_DropSameAsPicker ==
    [][Dropped => fileChangeValidation(lastEvent'.files)]_vars

\* C19 as amended: a drop leaves selectedImage as handleFileChange would have
\* left it for the same files from the same state, and error too, except that
\* a rejected drop sets its own text, "Please drop an image file (JPG, PNG).",
\* where the picker sets "Please upload an image file (JPG, PNG). PDF support
\* for detection is not yet available.".
C19_DropSameButForText ==
    [][Dropped =>
          \/ fileChangeValidation(lastEvent'.files)
          \/ /\ lastEvent'.files # <<>>
             /\ lastEvent'.files[1] \in OtherTypedFiles
             /\ selectedImage' = Null
             /\ error' = "Please drop an image file (JPG, PNG)."]_vars

C19_Witness ==
    /\ lastEvent.op = "handleDrop"
    /\ lastEvent.files # <<>>
    /\ lastEvent.files[1] = "paper.pdf"
    /\ selectedImage = Null
    /\ error = "Please drop an image file (JPG, PNG)."

\* C20: handleDragOver sets isDragOver, handleDragLeave clears it, and neither
\* changes anything else; after handleDrop isDragOver is false, whether the
\* dropped file was accepted, rejected or absent.
C20_DragFlagOnly ==
    [][/\ lastEvent'.op = "handleDragOver" =>
            isDragOver' /\ UNCHANGED <<workflow, messageBox, requests, timers>>
       /\ lastEvent'.op = "handleDragLeave" =>
            ~isDragOver' /\ UNCHANGED <<workflow, messageBox, requests, timers>>
       /\ Dropped => ~isDragOver']_vars

C20_Witness ==
    /\ lastEvent.op = "handleDrop"
    /\ lastEvent.files = <<>>
    /\ ~isDragOver
    /\ isProcessing

\* C21: the remove handler, whenever its button is there to be clicked (also
\* while a submission is in flight), leaves no file selected and the process
\* button disabled, and leaves error, result, isProcessing and the page as
\* they were.
C21_RemoveClearsSelection ==
    [][lastEvent'.op = "removeSelectedImage" =>
          /\ selectedImage' = Null
          /\ ~ProcessButtonEnabled'
          /\ UNCHANGED <<error, highlightedImageSrc, textRegionsDetected,
                         isProcessing, showResultPage>>]_vars

C21_Witness ==
    /\ lastEvent.op = "removeSelectedImage"
    /\ isProcessing
    /\ requests # <<>>
    /\ selectedImage = Null

SeveralFiles(e) == PickedOrDropped(e) /\ Len(e.files) >= 2

\* C22: when a picker or drop event carries several files, the first alone
\* decides: if it is an image it is stored and the error emptied, if it is
\* not, no file is selected and the error is set, even when a later file is
\* an image; no later file is ever stored.
C22_OnlyFirstFileCounts ==
    [][SeveralFiles(lastEvent') =>
          /\ lastEvent'.files[1] \in ImageTypedFiles =>
                selectedImage' = lastEvent'.files[1] /\ error' = ""
          /\ lastEvent'.files[1] \in OtherTypedFiles =>
                selectedImage' = Null /\ error' # ""
          /\ \A i \in 2..Len(lastEvent'.files) :
                selectedImage' # lastEvent'.files[i]]_vars

C22_Witness ==
    /\ lastEvent.op = "handleDrop"
    /\ lastEvent.files = <<"paper.pdf", "scan.png">>
    /\ selectedImage = Null
    /\ error = "Please drop an image file (JPG, PNG)."

\* C23: the workflow statuses exclude one another in every reachable state:
\* isProcessing never holds together with a non-empty error or with the result
\* page, and the result page is never shown while the error is non-empty.
C23_StatusesExclusive ==
    /\ ~(isProcessing /\ error # "")
    /\ ~(isProcessing /\ showResultPage)
    /\ ~(showResultPage /\ error # "")

\* C24: with processTextDetection started by the process button only, at most
\* one request is pending at any time, and isProcessing is true exactly while
\* one is pending.
C24_OneRequestWhileBusy ==
    /\ Len(requests) <= 1
    /\ isProcessing <=> requests # <<>>

C24_Witness ==
    /\ isProcessing
    /\ Len(requests) = 1
    /\ lastEvent.op = "processTextDetection"

\* C25: when a completion shows the result page, the selected file, whose name
\* is displayed beside the result, is the file the completed request carried.
C25_ShownFileIsSentFile ==
    (Completed /\ showResultPage) => selectedImage = lastEvent.files[1]

\* C26: against a backend whose success payloads all carry an image, in every
\* reachable state the result page is shown exactly when a highlighted image
\* is stored, and the stored count is non-zero only while the result page is
\* shown.
C26_PageIffImageStored ==
    /\ showResultPage <=> ResultStored
    /\ textRegionsDetected # 0 => showResultPage

C26_Witness ==
    /\ showResultPage
    /\ ResultStored
    /\ textRegionsDetected = 42

SelectionClearOrReset ==
    {"handleFileChange", "handleDrop", "removeSelectedImage", "handleBackToInput"}

\* C27: the message box and the workflow do not touch each other: the run of a
\* hide callback changes the message box only, never the selected file, the
\* error, isProcessing, the result or the page; and picking or dropping a
\* file, removing it and the reset change neither the message box nor the
\* pending hide callbacks.
C27_NotificationIndependent ==
    [][/\ lastEvent'.op = "timer" =>
            /\ UNCHANGED workflow
            /\ messageBox' = [visible |-> FALSE, content |-> ""]
       /\ lastEvent'.op \in SelectionClearOrReset =>
            UNCHANGED <<messageBox, timers>>]_vars

C27_Witness ==
    /\ lastEvent.op = "handleBackToInput"
    /\ messageBox = [visible |-> TRUE, content |-> "Text detection complete!"]
    /\ timers # <<>>

====
